---- MODULE Spec2Model ----
(***************************************************************************)
(* Resume tailoring workflow: the submission handler                       *)
(* (lambdas/workflow_handler/app.py), the Step Functions state machine     *)
(* defined in cdk/backend_stack.py and the job ledger (DynamoDB table      *)
(* keyed by pk = TENANT#tenantId, sk = JOB#jobId) they both write.         *)
(***************************************************************************)
EXTENDS Integers, Sequences, FiniteSets, Bags, TLC

\* ---- bounds ----------------------------------------------------------
\* Executions started over a run.
MaxExec == 2

\* A job key stands for one (tenantId, jobId) pair, i.e. one (pk, sk).
JobKeys == {"job1", "job2"}

Absent == "absent"

\* The workflow's state: the ledger and the executions started so far.
VARIABLES ledger, execs
vars == <<ledger, execs>>

\* One invocation of the generate handler and one of the validate handler,
\* each followed on its own from the event it is given.
VARIABLES gen, val

\* The last request to the HTTP API (POST /tailor, GET /status/{jobId}) with
\* its response.
VARIABLES api

\* The direct tailoring handler: its jobs table and its last request with the
\* response.
VARIABLES tailor
units == <<gen, val, api, tailor>>

\* A handler that is not being followed.
Idle == [pc |-> "idle"]

\* ---- the ledger (DynamoDB) --------------------------------------------
\* A missing item is the item whose attributes are all absent.
NoItem ==
    [status |-> Absent, error |-> Absent, docxKey |-> Absent,
     pdfKey |-> Absent, completedAt |-> Absent, validationReport |-> Absent]

\* put_item replaces the whole item: attributes not in the new item vanish.
PutItem(table, key, item) == [table EXCEPT ![key] = item]

\* An update that ignores the sort key: every item of the table is set.
UpdateItemAnyKey(table, key, sets) ==
    [k \in DOMAIN table |->
        [a \in DOMAIN table[k] |-> IF a \in DOMAIN sets THEN sets[a] ELSE table[k][a]]]

\* updateItem with "SET a = v, ...": named attributes are overwritten, every
\* other attribute keeps its value; there is no ConditionExpression, and the
\* item is created when it does not exist.
UpdateItem(table, key, sets) ==
    [table EXCEPT ![key] =
        [a \in DOMAIN table[key] |-> IF a \in DOMAIN sets THEN sets[a] ELSE table[key][a]]]

\* A JSON object is the set of its <<key, value>> members.
Keys(obj) == {m[1] : m \in obj}
Get(obj, k) == (CHOOSE m \in obj : m[1] = k)[2]

\* States.JsonToString: the text of a value, stored as a string attribute.
JsonToString(v) == ToString(v)

\* ---- submission handler -----------------------------------------------
RunComprehendValues == {"true", "false", Absent}

\* How the request fares before the ledger is touched (lines 40-62).
RequestKinds == {"ok", "invalid_body", "jd_no_such_key", "jd_read_error", "jd_empty"}

\* What sfn.start_execution does (lines 92-96).
StartOutcomes == {"started", "raised"}

\* The item written with the status of a job that has not started.
job_item_queued ==
    [status |-> "QUEUED", error |-> Absent, docxKey |-> Absent,
     pdfKey |-> Absent, completedAt |-> Absent, validationReport |-> Absent]

\* Of the item's attributes the model keeps status and those the workflow sets.
job_item ==
    [status |-> "RUNNING", error |-> Absent, docxKey |-> Absent,
     pdfKey |-> Absent, completedAt |-> Absent, validationReport |-> Absent]

\* Top-level keys of the execution input.
execution_input ==
    {"tenantId", "jobId", "bucketName", "resumeKey", "jobDescriptionKey",
     "jobDescription", "templateKey", "options"}

NewExecution(j, opts) ==
    [job |-> j, options |-> opts, pc |-> "ParseResume", keys |-> execution_input,
     artifacts |-> {}, validation |-> Absent, error |-> {}, trace |-> <<>>]

\* A handler that writes the item before it looks at the request.
handler_put_first(j, opts, req, start) ==
    /\ ledger' = PutItem(ledger, j, job_item)
    /\ IF req = "ok" /\ start = "started"
       THEN /\ BagCardinality(execs) < MaxExec
            /\ execs' = execs (+) SetToBag({NewExecution(j, opts)})
       ELSE execs' = execs

handler(j, opts, req, start) ==
    IF req # "ok"
    THEN UNCHANGED vars
    ELSE /\ ledger' = PutItem(ledger, j, job_item)
         /\ IF start = "started"
            THEN /\ BagCardinality(execs) < MaxExec
                 /\ execs' = execs (+) SetToBag({NewExecution(j, opts)})
            ELSE execs' = execs

\* One request.  A rejected request and a failed start do not depend on the
\* options, so one value stands for all of them there.
Submit ==
    \E j \in JobKeys, req \in RequestKinds :
        \/ req # "ok" /\ j = "job1" /\ handler(j, Absent, req, "raised")
        \/ req = "ok" /\ handler(j, Absent, req, "raised")
        \/ req = "ok" /\ \E opts \in RunComprehendValues : handler(j, opts, req, "started")

\* ---- the state machine ------------------------------------------------
TaskStates ==
    {"ParseResume", "DetectPII", "GenerateDraft", "ValidateDraft",
     "RenderArtifacts", "PersistJobMetadata", "MarkJobFailed"}
LiveStates == TaskStates \cup {"RunComprehend"}
\* How an execution ends: after PersistJobMetadata, in the Fail state after
\* MarkJobFailed, or failed on an error no state caught.
EndStates == {"Succeeded", "WorkflowFailed", "Aborted"}

\* JSONPaths a state reads from its input.
PathsOf(state) ==
    CASE state = "ParseResume" -> {<<"bucketName">>, <<"resumeKey">>}
      [] state = "RunComprehend" -> {<<"options", "runComprehend">>}
      [] state = "DetectPII" -> {<<"jobDescription">>}
      [] state = "GenerateDraft" ->
            {<<"tenantId">>, <<"jobId">>, <<"resumeKey">>, <<"jobDescriptionKey">>,
             <<"jobDescription">>, <<"templateKey">>, <<"parsedResume">>,
             <<"piiAnalysis">>, <<"options">>}
      [] state = "ValidateDraft" ->
            {<<"tenantId">>, <<"jobId">>, <<"draft">>, <<"parsedResume">>,
             <<"jobDescription">>}
      [] state = "RenderArtifacts" ->
            {<<"tenantId">>, <<"jobId">>, <<"draft">>, <<"templateKey">>}
      [] state = "PersistJobMetadata" ->
            {<<"tenantId">>, <<"jobId">>, <<"artifacts", "docxKey">>,
             <<"artifacts", "pdfKey">>, <<"artifacts", "completedAt">>, <<"validation">>}
      [] state = "MarkJobFailed" -> {<<"tenantId">>, <<"jobId">>, <<"error">>}

PathExists(x, p) ==
    /\ p[1] \in x.keys
    /\ Len(p) = 2 =>
          IF p[1] = "options" THEN x.options # Absent
          ELSE p[2] \in Keys(x.artifacts)

PathsResolve(x, state) == \A p \in PathsOf(state) : PathExists(x, p)

\* result_path of each task: the key its result is stored under.
ResultPath(state) ==
    CASE state = "ParseResume" -> {"parsedResume"}
      [] state = "DetectPII" -> {"piiAnalysis"}
      [] state = "GenerateDraft" -> {"draft"}
      [] state = "ValidateDraft" -> {"validation"}
      [] state = "RenderArtifacts" -> {"artifacts"}
      [] OTHER -> {}

\* The chain with ValidateDraft skipped.
NextStateSkippingValidate(state, x) ==
    CASE state = "ParseResume" -> "RunComprehend"
      [] state = "RunComprehend" ->
            IF x.options = "true" THEN "DetectPII" ELSE "GenerateDraft"
      [] state = "DetectPII" -> "GenerateDraft"
      [] state = "GenerateDraft" -> "RenderArtifacts"
      [] state = "ValidateDraft" -> "RenderArtifacts"
      [] state = "RenderArtifacts" -> "PersistJobMetadata"
      [] state = "PersistJobMetadata" -> "Succeeded"
      [] state = "MarkJobFailed" -> "WorkflowFailed"

\* The successor of a state on success (.next(...) and the Choice).
NextState(state, x) ==
    CASE state = "ParseResume" -> "RunComprehend"
      [] state = "RunComprehend" ->
            IF x.options = "true" THEN "DetectPII" ELSE "GenerateDraft"
      [] state = "DetectPII" -> "GenerateDraft"
      [] state = "GenerateDraft" -> "ValidateDraft"
      [] state = "ValidateDraft" -> "RenderArtifacts"
      [] state = "RenderArtifacts" -> "PersistJobMetadata"
      [] state = "PersistJobMetadata" -> "Succeeded"
      [] state = "MarkJobFailed" -> "WorkflowFailed"

\* The catch of GenerateDraft left out.
CatchStatesWithoutGenerate ==
    {"ParseResume", "ValidateDraft", "RenderArtifacts", "PersistJobMetadata"}

\* The states that carry add_catch(failure_update, result_path="$.error").
CatchStates ==
    {"ParseResume", "GenerateDraft", "ValidateDraft", "RenderArtifacts",
     "PersistJobMetadata"}

\* Errors a task can raise: the service call fails, the handler raises (the
\* model gateway is unavailable), or the Lambda runs into its timeout.
ErrorsOf(state) ==
    CASE state = "ParseResume" -> {"Textract.Exception"}
      [] state = "DetectPII" -> {"Comprehend.Exception"}
      [] state = "GenerateDraft" -> {"RuntimeError", "Sandbox.Timedout"}
      [] state = "ValidateDraft" -> {"Sandbox.Timedout"}
      [] state = "RenderArtifacts" -> {"Sandbox.Timedout"}
      [] state = "PersistJobMetadata" -> {"DynamoDb.Exception"}
      [] state = "MarkJobFailed" -> {"DynamoDb.Exception"}

OutcomesOf(state) == {"ok"} \cup ErrorsOf(state)

Logged(x, state, result) == Append(x.trace, <<state, result>>)

\* A JSONPath that does not resolve is a States.Runtime error: the execution
\* fails at once, and no Catch applies to it.
RuntimeFailure(x, state) ==
    [x EXCEPT !.pc = "Aborted", !.trace = Logged(x, state, "States.Runtime")]

\* The task succeeded: its result is stored and the next state is entered.
Advance(x, state) ==
    [x EXCEPT !.pc = NextState(state, x),
              !.keys = x.keys \cup ResultPath(state),
              !.trace = Logged(x, state, "ok")]

\* The task raised: its catch, when it has one, stores {Error, Cause} at
\* $.error and enters MarkJobFailed; without a catch the execution fails.
Raise(x, state, err) ==
    IF state \in CatchStates
    THEN [x EXCEPT !.pc = "MarkJobFailed",
                   !.keys = x.keys \cup {"error"},
                   !.error = {<<"Error", err>>, <<"Cause", "cause">>},
                   !.trace = Logged(x, state, err)]
    ELSE [x EXCEPT !.pc = "Aborted", !.trace = Logged(x, state, err)]

\* A task that does not write the ledger.
TaskResult(x, state, outcome) ==
    IF ~PathsResolve(x, state) THEN RuntimeFailure(x, state)
    ELSE IF outcome = "ok" THEN Advance(x, state)
    ELSE Raise(x, state, outcome)

\* The executions are a bag of execution states: the workflow service keeps
\* them apart, and nothing in the definition depends on which is which.
Running == BagToSet(execs)

At(x, state) == x \in Running /\ x.pc = state

\* Execution x moves to state y.
Becomes(x, y) == execs' = (execs (-) SetToBag({x})) (+) SetToBag({y})

ParseResume(x) ==
    /\ At(x, "ParseResume")
    /\ \E outcome \in OutcomesOf("ParseResume") :
          Becomes(x, TaskResult(x, "ParseResume", outcome))
    /\ UNCHANGED ledger

RunComprehend(x) ==
    /\ At(x, "RunComprehend")
    /\ Becomes(x, IF PathsResolve(x, "RunComprehend")
                  THEN [x EXCEPT !.pc = NextState("RunComprehend", x)]
                  ELSE RuntimeFailure(x, "RunComprehend"))
    /\ UNCHANGED ledger

DetectPII(x) ==
    /\ At(x, "DetectPII")
    /\ \E outcome \in OutcomesOf("DetectPII") :
          Becomes(x, TaskResult(x, "DetectPII", outcome))
    /\ UNCHANGED ledger

GenerateDraft(x) ==
    /\ At(x, "GenerateDraft")
    /\ \E outcome \in OutcomesOf("GenerateDraft") :
          Becomes(x, TaskResult(x, "GenerateDraft", outcome))
    /\ UNCHANGED ledger

\* validate_handler returns a report whose status is PASS or REVIEW.
ValidationStatuses == {"PASS", "REVIEW"}

ValidateDraft(x) ==
    /\ At(x, "ValidateDraft")
    /\ \E outcome \in OutcomesOf("ValidateDraft"), st \in ValidationStatuses :
          LET y == TaskResult(x, "ValidateDraft", outcome)
          IN Becomes(x, IF "validation" \in y.keys THEN [y EXCEPT !.validation = st] ELSE y)
    /\ UNCHANGED ledger

\* The Lambda environment the stack sets has BUCKET_NAME and TABLE_NAME; the
\* render handler reads JOBS_BUCKET and JOBS_TABLE.
RenderConfigured == FALSE

\* render_handler.handler on the state machine's payload {tenantId, jobId,
\* draft, templateKey}: there is no "body", so body = {}; every exception is
\* caught and turned into a response.  The value is the response envelope.
RenderHandler(configured) ==
    IF ~configured
    THEN {<<"statusCode", "500">>, <<"headers", "application/json">>,
          <<"body", "Service not configured (bucket/table)">>}
    ELSE {<<"statusCode", "400">>, <<"headers", "application/json">>,
          <<"body", "resumeJson or jsonS3 required">>}

RenderArtifacts(x) ==
    /\ At(x, "RenderArtifacts")
    /\ \E outcome \in OutcomesOf("RenderArtifacts") :
          LET y == TaskResult(x, "RenderArtifacts", outcome)
          IN Becomes(x, IF "artifacts" \in y.keys
                        THEN [y EXCEPT !.artifacts = RenderHandler(RenderConfigured)]
                        ELSE y)
    /\ UNCHANGED ledger

\* "SET #status, #docx, #pdf, #completedAt, #validation"
StoreUpdate(x) ==
    [status |-> "COMPLETED",
     docxKey |-> Get(x.artifacts, "docxKey"),
     pdfKey |-> Get(x.artifacts, "pdfKey"),
     completedAt |-> Get(x.artifacts, "completedAt"),
     validationReport |-> JsonToString(x.validation)]

PersistJobMetadata(x) ==
    /\ At(x, "PersistJobMetadata")
    /\ \E outcome \in OutcomesOf("PersistJobMetadata") :
          /\ Becomes(x, TaskResult(x, "PersistJobMetadata", outcome))
          /\ ledger' =
                IF PathsResolve(x, "PersistJobMetadata") /\ outcome = "ok"
                THEN UpdateItem(ledger, x.job, StoreUpdate(x))
                ELSE ledger

\* The failure update without its error attribute.
FailureUpdateStatusOnly(x) ==
    [status |-> "FAILED"]

\* "SET #status = :status, #error = :error"
FailureUpdate(x) ==
    [status |-> "FAILED", error |-> JsonToString(x.error)]

MarkJobFailed(x) ==
    /\ At(x, "MarkJobFailed")
    /\ \E outcome \in OutcomesOf("MarkJobFailed") :
          /\ Becomes(x, TaskResult(x, "MarkJobFailed", outcome))
          /\ ledger' =
                IF PathsResolve(x, "MarkJobFailed") /\ outcome = "ok"
                THEN UpdateItem(ledger, x.job, FailureUpdate(x))
                ELSE ledger

Step(x) ==
    \/ ParseResume(x)
    \/ RunComprehend(x)
    \/ DetectPII(x)
    \/ GenerateDraft(x)
    \/ ValidateDraft(x)
    \/ RenderArtifacts(x)
    \/ PersistJobMetadata(x)
    \/ MarkJobFailed(x)

Init ==
    /\ ledger = [j \in JobKeys |-> NoItem]
    /\ execs = EmptyBag
    /\ gen = Idle
    /\ val = Idle
    /\ api = Idle
    /\ tailor = Idle

Next ==
    \/ Submit /\ UNCHANGED units
    \/ \E x \in Running : ParseResume(x) /\ UNCHANGED units
    \/ \E x \in Running : RunComprehend(x) /\ UNCHANGED units
    \/ \E x \in Running : DetectPII(x) /\ UNCHANGED units
    \/ \E x \in Running : GenerateDraft(x) /\ UNCHANGED units
    \/ \E x \in Running : ValidateDraft(x) /\ UNCHANGED units
    \/ \E x \in Running : RenderArtifacts(x) /\ UNCHANGED units
    \/ \E x \in Running : PersistJobMetadata(x) /\ UNCHANGED units
    \/ \E x \in Running : MarkJobFailed(x) /\ UNCHANGED units

Spec == Init /\ [][Next]_vars

\* The workflow service keeps running the executions it has started: while
\* some execution has a step to take, a step is taken.  Every execution has
\* finitely many steps, so each one is run to its end.  Submissions are not
\* forced to happen.
WorkflowStep == \E x \in Running : Step(x)

FairSpec == Spec /\ WF_vars(WorkflowStep)

TypeOK ==
    /\ \A j \in JobKeys : ledger[j].status \in {Absent, "RUNNING", "COMPLETED", "FAILED"}
    /\ BagCardinality(execs) <= MaxExec
    /\ \A x \in Running : x.pc \in LiveStates \cup EndStates

\* ---- generate handler ---------------------------------------------------
\* The texts the model gateway is taken to answer with.
ModelTexts ==
    {" ", "Experienced engineer", "{\"Summary\": \"Engineer\", \"Skills\": [\"SQL\", \"Go\"]}",
     "{\"Summary\": \"\"}", "[\"SQL\"]", "null"}

\* The stages whose answer is parsed get every text, the others two of them.
TextsFor(stage) ==
    IF stage \in {"extract_competencies", "final_assembly"}
    THEN ModelTexts
    ELSE IF stage = "harmonize_skills" THEN {" ", "SQL, Go ,"}
    ELSE {" ", "Experienced engineer"}

\* What bedrock.invoke_model gives: it raises, or the body's "content" list
\* is empty, or holds one text block.
Responses(stage) ==
    {[error |-> "ClientError", content |-> <<>>]}
        \cup {[error |-> Absent, content |-> c] : c \in {<<>>} \cup {<<t>> : t \in TextsFor(stage)}}

\* str.strip() on the texts above.
strip(text) == IF text = " " THEN "" ELSE text

\* _invoke_bedrock: the stripped text of the first content block.
invoke_bedrock(response) ==
    IF response.error # Absent THEN [error |-> response.error, text |-> ""]
    ELSE IF response.content = <<>> THEN [error |-> "RuntimeError", text |-> ""]
    ELSE [error |-> Absent, text |-> strip(response.content[1])]

\* A JSON string value, and a JSON array of strings.
Str(text) == [list |-> FALSE, items |-> <<text>>]
List(items) == [list |-> TRUE, items |-> items]

\* json.loads on the texts above: the type of the value read and, for an
\* object, its members in order.
json_loads(text) ==
    CASE text = "{\"Summary\": \"Engineer\", \"Skills\": [\"SQL\", \"Go\"]}" ->
            [error |-> Absent, type |-> "object",
             members |-> <<<<"Summary", Str("Engineer")>>, <<"Skills", List(<<"SQL", "Go">>)>>>>]
      [] text = "{\"Summary\": \"\"}" ->
            [error |-> Absent, type |-> "object", members |-> <<<<"Summary", Str("")>>>>]
      [] text = "[\"SQL\"]" -> [error |-> Absent, type |-> "array", members |-> <<>>]
      [] text = "null" -> [error |-> Absent, type |-> "null", members |-> <<>>]
      [] OTHER -> [error |-> "JSONDecodeError", type |-> Absent, members |-> <<>>]

\* A dict made by the handler itself.
Dict(key, text) == [error |-> Absent, type |-> "object", members |-> <<<<key, Str(text)>>>>]

\* _extract_competencies, lines 65-69.
competencies_of(text) ==
    IF json_loads(text).error = Absent THEN json_loads(text) ELSE Dict("raw", text)

\* The final assembly that keeps whatever json.loads read, lines 208-212.
tailored_json_of(text) ==
    IF json_loads(text).error = Absent THEN json_loads(text) ELSE Dict("Summary", text)

\* A handler that asks for the Summary alone.
summary_only == <<"Summary">>

required_sections == <<"Summary", "Skills", "Experience", "Education", "Certifications">>

upper(section) ==
    CASE section = "Summary" -> "SUMMARY"
      [] section = "Skills" -> "SKILLS"
      [] section = "Experience" -> "EXPERIENCE"
      [] section = "Education" -> "EDUCATION"
      [] section = "Certifications" -> "CERTIFICATIONS"

\* dict.get: the member's value, or None.
HasKey(obj, key) == \E i \in 1..Len(obj.members) : obj.members[i][1] = key
Member(obj, key) == (CHOOSE m \in {obj.members[i] : i \in 1..Len(obj.members)} : m[1] = key)[2]

\* Truth of a value: a non-empty string or a non-empty list.
Truthy(value) == IF value.list THEN value.items # <<>> ELSE value.items[1] # ""

RECURSIVE Bullets(_)
Bullets(items) ==
    IF items = <<>> THEN <<>> ELSE <<"- " \o Head(items)>> \o Bullets(Tail(items))

\* Lines 214-223.
RECURSIVE draft_text_lines(_, _)
draft_text_lines(tailored_json, sections) ==
    IF sections = <<>> THEN <<>>
    ELSE LET section == Head(sections)
             rest == draft_text_lines(tailored_json, Tail(sections))
         IN IF HasKey(tailored_json, section) /\ Truthy(Member(tailored_json, section))
            THEN LET value == Member(tailored_json, section)
                 IN <<upper(section)>>
                        \o (IF value.list THEN Bullets(value.items) ELSE value.items)
                        \o <<"">> \o rest
            ELSE rest

\* "\n".join(lines).strip(): the lines hold no blank of their own, so the
\* strip removes the empty lines at both ends.
RECURSIVE join(_)
join(lines) ==
    IF lines = <<>> THEN ""
    ELSE IF Len(lines) = 1 THEN Head(lines)
    ELSE Head(lines) \o "\n" \o join(Tail(lines))

RECURSIVE strip_lines(_)
strip_lines(lines) ==
    IF lines = <<>> THEN <<>>
    ELSE IF Head(lines) = "" THEN strip_lines(Tail(lines))
    ELSE IF lines[Len(lines)] = "" THEN strip_lines(SubSeq(lines, 1, Len(lines) - 1))
    ELSE lines

\* harmonized_skills.split(","), each stripped, empty ones dropped.
harmonized_list(text) == IF text = "SQL, Go ," THEN <<"SQL", "Go">> ELSE <<>>

\* The events the handler is followed on.  parsedResume is the list of its
\* Blocks; the two blobs are what s3.get_object finds at resumeKey and at
\* jobDescriptionKey (Absent: the event has no jobDescriptionKey).
ParsedResumes ==
    {<<>>,
     <<[BlockType |-> "PAGE", Text |-> "page one"]>>,
     <<[BlockType |-> "LINE", Text |-> "Engineer"], [BlockType |-> "WORD", Text |-> ""],
       [BlockType |-> "WORD", Text |-> "SQL"]>>}
ResumeBlobs == {"NoSuchKey", "", "Engineer at Acme"}
JobDescriptions == {Absent, "", "Data engineer"}
JobDescriptionBlobs == {Absent, "", "Data engineer wanted"}

GenerateEvents ==
    [parsedResume : ParsedResumes, resumeBlob : ResumeBlobs,
     jobDescription : JobDescriptions, jobDescriptionBlob : JobDescriptionBlobs]

\* _textract_to_text: the non-empty texts of the LINE and WORD blocks.
RECURSIVE textract_lines(_)
textract_lines(blocks) ==
    IF blocks = <<>> THEN <<>>
    ELSE (IF Head(blocks).BlockType \in {"LINE", "WORD"} /\ Head(blocks).Text # ""
          THEN <<Head(blocks).Text>> ELSE <<>>) \o textract_lines(Tail(blocks))

textract_to_text(parsed_resume) == join(textract_lines(parsed_resume))

NoJson == [error |-> Absent, type |-> Absent, members |-> <<>>]
NoDraft ==
    [draftText |-> "", sections |-> NoJson, competencies |-> NoJson,
     alignment |-> "", skills |-> <<>>, consistency |-> ""]

\* The handler about to run on an event.
Invocation(event) ==
    [pc |-> "start", event |-> event, resume_text |-> "", job_description |-> "",
     calls |-> <<>>, competencies |-> NoJson, alignment_notes |-> "",
     rewritten_bullets |-> "", harmonized_skills |-> "", consistency_report |-> "",
     error |-> Absent, result |-> NoDraft]

Raises(error) == gen' = [gen EXCEPT !.pc = "raised", !.error = error]

\* The handler going on to the first invocation with whatever it was given.
GenerateWithoutInputs ==
    /\ gen.pc = "start"
    /\ LET event == gen.event
           text == textract_to_text(event.parsedResume)
       IN gen' = [gen EXCEPT !.pc = "extract_competencies",
                             !.resume_text = IF text # "" THEN text
                                             ELSE IF event.resumeBlob = "NoSuchKey" THEN ""
                                             ELSE event.resumeBlob,
                             !.job_description = IF event.jobDescription = Absent THEN ""
                                                 ELSE event.jobDescription]

\* Lines 158-175: the resume text and the job description.
GenerateInputs ==
    /\ gen.pc = "start"
    /\ LET event == gen.event
           text == textract_to_text(event.parsedResume)
           job_description ==
               IF event.jobDescription \in {Absent, ""} /\ event.jobDescriptionBlob # Absent
               THEN event.jobDescriptionBlob
               ELSE event.jobDescription
       IN IF text = "" /\ event.resumeBlob = "NoSuchKey" THEN Raises("ClientError")
          ELSE IF text = "" /\ event.resumeBlob = "" THEN Raises("ValueError")
          ELSE IF job_description \in {Absent, ""} THEN Raises("ValueError")
          ELSE gen' = [gen EXCEPT !.pc = "extract_competencies",
                                  !.resume_text = IF text # "" THEN text ELSE event.resumeBlob,
                                  !.job_description = job_description]

\* An invocation whose error is noted while the handler goes on with an
\* empty text.
InvokeAndGoOn(stage, local, next) ==
    /\ gen.pc = stage
    /\ \E response \in Responses(stage) :
          LET got == invoke_bedrock(response)
              called == [gen EXCEPT !.calls = Append(@, stage)]
          IN gen' = IF got.error # Absent
                    THEN [called EXCEPT !.pc = next, !.error = got.error]
                    ELSE IF stage = "extract_competencies"
                    THEN [called EXCEPT !.pc = next, ![local] = competencies_of(got.text)]
                    ELSE [called EXCEPT !.pc = next, ![local] = got.text]

\* One model invocation: the stage's result is kept and the next stage is
\* up, or the error of _invoke_bedrock leaves the handler.
Invoke(stage, local, next) ==
    /\ gen.pc = stage
    /\ \E response \in Responses(stage) :
          LET got == invoke_bedrock(response)
              called == [gen EXCEPT !.calls = Append(@, stage)]
          IN gen' = IF got.error # Absent
                    THEN [called EXCEPT !.pc = "raised", !.error = got.error]
                    ELSE IF stage = "extract_competencies"
                    THEN [called EXCEPT !.pc = next, ![local] = competencies_of(got.text)]
                    ELSE [called EXCEPT !.pc = next, ![local] = got.text]

extract_competencies ==
    Invoke("extract_competencies", "competencies", "align_experience")
align_experience ==
    Invoke("align_experience", "alignment_notes", "rewrite_bullets")
rewrite_bullets ==
    Invoke("rewrite_bullets", "rewritten_bullets", "harmonize_skills")
harmonize_skills ==
    Invoke("harmonize_skills", "harmonized_skills", "consistency_pass")
consistency_pass ==
    Invoke("consistency_pass", "consistency_report", "final_assembly")

\* Lines 189-239: the last invocation, the draft text and the returned draft.
\* tailored_json.get raises AttributeError when the value read is no object.
final_assembly ==
    /\ gen.pc = "final_assembly"
    /\ \E response \in Responses("final_assembly") :
          LET got == invoke_bedrock(response)
              called == [gen EXCEPT !.calls = Append(@, "final_assembly")]
              tailored_json == tailored_json_of(got.text)
          IN gen' =
                IF got.error # Absent
                THEN [called EXCEPT !.pc = "raised", !.error = got.error]
                ELSE IF tailored_json.type # "object"
                THEN [called EXCEPT !.pc = "raised", !.error = "AttributeError"]
                ELSE [called EXCEPT
                        !.pc = "returned",
                        !.result =
                            [draftText |->
                                join(strip_lines(draft_text_lines(tailored_json, required_sections))),
                             sections |-> tailored_json,
                             competencies |-> gen.competencies,
                             alignment |-> gen.alignment_notes,
                             skills |-> harmonized_list(gen.harmonized_skills),
                             consistency |-> gen.consistency_report]]

GenInit ==
    /\ ledger = [j \in JobKeys |-> NoItem]
    /\ execs = EmptyBag
    /\ val = Idle
    /\ api = Idle
    /\ tailor = Idle
    /\ gen \in {Invocation(event) : event \in GenerateEvents}

GenNext ==
    \/ GenerateInputs /\ UNCHANGED <<vars, val, api, tailor>>
    \/ extract_competencies /\ UNCHANGED <<vars, val, api, tailor>>
    \/ align_experience /\ UNCHANGED <<vars, val, api, tailor>>
    \/ rewrite_bullets /\ UNCHANGED <<vars, val, api, tailor>>
    \/ harmonize_skills /\ UNCHANGED <<vars, val, api, tailor>>
    \/ consistency_pass /\ UNCHANGED <<vars, val, api, tailor>>
    \/ final_assembly /\ UNCHANGED <<vars, val, api, tailor>>

GenSpec == GenInit /\ [][GenNext]_gen

\* ---- validate handler ---------------------------------------------------
\* A text is the sequence of its characters.
ascii_digits ==
    <<"0", "1", "2", "3", "4", "5", "6", "7", "8", "9">>
ascii_uppercase ==
    <<"A", "B", "C", "D", "E", "F", "G", "H", "I", "J", "K", "L", "M", "N", "O", "P", "Q", "R", "S", "T", "U", "V", "W", "X", "Y", "Z">>
ascii_lowercase ==
    <<"a", "b", "c", "d", "e", "f", "g", "h", "i", "j", "k", "l", "m", "n", "o", "p", "q", "r", "s", "t", "u", "v", "w", "x", "y", "z">>

\* The characters of [A-Za-z0-9], in code point order.
Alnum == ascii_digits \o ascii_uppercase \o ascii_lowercase
AlnumSet == {Alnum[i] : i \in 1..Len(Alnum)}

\* str.lower() on one character and on a text.
ToLower ==
    [c \in {ascii_uppercase[i] : i \in 1..26} |->
        ascii_lowercase[CHOOSE i \in 1..26 : ascii_uppercase[i] = c]]
lower(text) ==
    [i \in 1..Len(text) |-> IF text[i] \in DOMAIN ToLower THEN ToLower[text[i]] ELSE text[i]]

\* re.findall(r"[A-Za-z0-9]+", text): the maximal runs, left to right; run is
\* the run being read.
RECURSIVE findall(_, _)
findall(text, run) ==
    IF text = <<>> THEN (IF run = <<>> THEN <<>> ELSE <<run>>)
    ELSE IF Head(text) \in AlnumSet THEN findall(Tail(text), Append(run, Head(text)))
    ELSE (IF run = <<>> THEN <<>> ELSE <<run>>) \o findall(Tail(text), <<>>)

LongerThanTwo(token) == Len(token) > 2

\* _normalize_tokens
normalize_tokens(text) == SelectSeq(findall(lower(text), <<>>), LongerThanTwo)

Range(list) == {list[i] : i \in 1..Len(list)}
\* Counter(tokens)[token]
Counted(tokens, token) == Cardinality({i \in 1..Len(tokens) : tokens[i] = token})

\* Order of two texts as Python orders strings: by code point, a prefix first.
Ord(c) == CHOOSE i \in 1..Len(Alnum) : Alnum[i] = c
RECURSIVE Before(_, _)
Before(a, b) ==
    IF b = <<>> THEN FALSE
    ELSE IF a = <<>> THEN TRUE
    ELSE IF Head(a) = Head(b) THEN Before(Tail(a), Tail(b))
    ELSE Ord(Head(a)) < Ord(Head(b))

\* sorted() of a set of tokens.
RECURSIVE sorted(_)
sorted(tokens) ==
    IF tokens = {} THEN <<>>
    ELSE LET first == CHOOSE t \in tokens : \A u \in tokens \ {t} : Before(t, u)
         IN <<first>> \o sorted(tokens \ {first})

\* round(num / den, 2) in hundredths: the nearest hundredth, the even one of
\* two that are equally near.
round2(num, den) ==
    LET q == (100 * num) \div den
        r == (100 * num) % den
    IN IF 2 * r > den THEN q + 1
       ELSE IF 2 * r < den THEN q
       ELSE q + (q % 2)

Max(a, b) == IF a >= b THEN a ELSE b
Min(a, b) == IF a <= b THEN a ELSE b

\* Coverage that takes as required only the tokens occurring twice.
keyword_coverage_by_count(job_description, draft_text) ==
    LET jd_tokens == normalize_tokens(job_description)
        draft_tokens == Range(normalize_tokens(draft_text))
        required == {token \in Range(jd_tokens) : Counted(jd_tokens, token) >= 2}
        covered == sorted(required \cap draft_tokens)
    IN [score |-> round2(Len(covered), Max(Cardinality(required), 1)),
        covered |-> covered, missing |-> sorted(required \ draft_tokens)]

\* Coverage scored against the number of tokens of the draft.
keyword_coverage_of_draft(job_description, draft_text) ==
    LET jd_tokens == normalize_tokens(job_description)
        draft_tokens == Range(normalize_tokens(draft_text))
        required ==
            {token \in Range(jd_tokens) : Counted(jd_tokens, token) >= 2 \/ Len(token) > 6}
        covered == sorted(required \cap draft_tokens)
    IN [score |-> round2(Len(covered), Max(Cardinality(draft_tokens), 1)),
        covered |-> covered, missing |-> sorted(required \ draft_tokens)]

\* _keyword_coverage; the score is in hundredths.
keyword_coverage(job_description, draft_text) ==
    LET jd_tokens == normalize_tokens(job_description)
        draft_tokens == Range(normalize_tokens(draft_text))
        required ==
            {token \in Range(jd_tokens) : Counted(jd_tokens, token) >= 2 \/ Len(token) > 6}
        covered == sorted({token \in required : token \in draft_tokens})
        missing == sorted(required \ draft_tokens)
    IN [score |-> round2(Len(covered), Max(Cardinality(required), 1)),
        covered |-> covered, missing |-> missing]

\* _extract_entities: the lower-cased non-empty block texts.
extract_entities(parsed_resume) ==
    {lower(parsed_resume[i].Text) :
        i \in {k \in 1..Len(parsed_resume) : parsed_resume[k].Text # <<>>}}

\* The draft's sections are a dict: its <<section, value>> items in order.  A
\* value is a string (Str) or a list of strings (List).
None == Str(<<>>)

\* sections.get(section), None being read as the empty string (both false).
sections_get(sections, section) ==
    IF \E i \in 1..Len(sections) : sections[i][1] = section
    THEN sections[CHOOSE i \in 1..Len(sections) : sections[i][1] = section][2]
    ELSE None

\* Truth of a section value.
Populated(value) == IF value.list THEN value.items # <<>> ELSE value.items[1] # <<>>

\* Lines 38-41 for the entries of one section: f"{section}: {entry}" is the
\* pair of the section and the entry.
RECURSIVE introduced_in(_, _, _)
introduced_in(section, entries, source_entities) ==
    IF entries = <<>> THEN <<>>
    ELSE (IF lower(Head(entries)) # <<>> /\ lower(Head(entries)) \notin source_entities
          THEN <<<<section, Head(entries)>>>> ELSE <<>>)
             \o introduced_in(section, Tail(entries), source_entities)

RECURSIVE introduced_from(_, _)
introduced_from(sections, source_entities) ==
    IF sections = <<>> THEN <<>>
    ELSE introduced_in(Head(sections)[1], Head(sections)[2].items, source_entities)
            \o introduced_from(Tail(sections), source_entities)

\* The detection that returns every entry it found.
detect_new_entities_uncut(draft_sections, parsed_resume) ==
    introduced_from(draft_sections, extract_entities(parsed_resume))

\* _detect_new_entities
detect_new_entities(draft_sections, parsed_resume) ==
    LET introduced == introduced_from(draft_sections, extract_entities(parsed_resume))
    IN SubSeq(introduced, 1, Min(50, Len(introduced)))

\* The names of a set of sections in the order of _required_sections().
sections_as_required(names) ==
    LET In(name) == name \in names
    IN SelectSeq(required_sections, In)

\* sorted() of a set of section names: the five names in code point order.
sorted_sections(names) ==
    LET In(name) == name \in names
    IN SelectSeq(<<"Certifications", "Education", "Experience", "Skills", "Summary">>, In)

NoReport ==
    [status |-> Absent, keywordCoverage |-> [score |-> 0, covered |-> <<>>, missing |-> <<>>],
     missingSections |-> <<>>, introducedEntities |-> <<>>,
     changeLog |-> <<>>]

\* A handler that reads sections[section], which raises KeyError for a section
\* the draft does not have.
validate_handler_indexing(event) ==
    LET sections == event.draft.sections
        coverage == keyword_coverage(event.jobDescription, event.draft.draftText)
        introduced_entities == detect_new_entities(sections, event.parsedResume)
        present_sections ==
            {section \in Range(required_sections) : Populated(sections_get(sections, section))}
        missing_sections == sorted_sections(Range(required_sections) \ present_sections)
    IN IF \E section \in Range(required_sections) :
              \A i \in 1..Len(sections) : sections[i][1] # section
       THEN [NoReport EXCEPT !.status = "KeyError"]
       ELSE [status |->
                IF coverage.score < 60 \/ missing_sections # <<>> \/ introduced_entities # <<>>
                THEN "REVIEW" ELSE "PASS",
             keywordCoverage |-> coverage,
             missingSections |-> missing_sections,
             introducedEntities |-> introduced_entities,
             changeLog |->
                <<"keyword_coverage">>
                    \o (IF introduced_entities # <<>> THEN <<"new_entities_detected">> ELSE <<>>)
                    \o (IF missing_sections # <<>> THEN <<"sections_missing">> ELSE <<>>)]

\* The report of a handler whose status looks at the score only.
validate_handler_by_score(event) ==
    LET sections == event.draft.sections
        coverage == keyword_coverage(event.jobDescription, event.draft.draftText)
        introduced_entities == detect_new_entities(sections, event.parsedResume)
        present_sections ==
            {section \in Range(required_sections) : Populated(sections_get(sections, section))}
        missing_sections == sorted_sections(Range(required_sections) \ present_sections)
    IN [status |-> IF coverage.score < 60 THEN "REVIEW" ELSE "PASS",
        keywordCoverage |-> coverage,
        missingSections |-> missing_sections,
        introducedEntities |-> introduced_entities,
        changeLog |->
            <<"keyword_coverage">>
                \o (IF introduced_entities # <<>> THEN <<"new_entities_detected">> ELSE <<>>)
                \o (IF missing_sections # <<>> THEN <<"sections_missing">> ELSE <<>>)]

\* validate_handler's handler: the report returned.  changeLog is the list of
\* the "change" names of its entries.
validate_handler(event) ==
    LET sections == event.draft.sections
        coverage == keyword_coverage(event.jobDescription, event.draft.draftText)
        introduced_entities == detect_new_entities(sections, event.parsedResume)
        present_sections ==
            {section \in Range(required_sections) : Populated(sections_get(sections, section))}
        missing_sections == sorted_sections(Range(required_sections) \ present_sections)
    IN [status |->
            IF coverage.score < 60 \/ missing_sections # <<>> \/ introduced_entities # <<>>
            THEN "REVIEW" ELSE "PASS",
        keywordCoverage |-> coverage,
        missingSections |-> missing_sections,
        introducedEntities |-> introduced_entities,
        changeLog |->
            <<"keyword_coverage">>
                \o (IF introduced_entities # <<>> THEN <<"new_entities_detected">> ELSE <<>>)
                \o (IF missing_sections # <<>> THEN <<"sections_missing">> ELSE <<>>)]

\* ---- the events the validate handler is followed on ---------------------
\* Lines of the draft text at most.
MaxLines == 3

\* "Python, SQL and python/sql on Kubernetes; Terraform monitoring. Go!"
FivePosting ==
    <<"P", "y", "t", "h", "o", "n", ",", " ", "S", "Q", "L", " ", "a", "n",
      "d", " ", "p", "y", "t", "h", "o", "n", "/", "s", "q", "l", " ", "o",
      "n", " ", "K", "u", "b", "e", "r", "n", "e", "t", "e", "s", ";", " ",
      "T", "e", "r", "r", "a", "f", "o", "r", "m", " ", "m", "o", "n", "i",
      "t", "o", "r", "i", "n", "g", ".", " ", "G", "o", "!">>
\* "R2D2 r2d2 Kubernetes terraform-cloud AWS"
ThreePosting ==
    <<"R", "2", "D", "2", " ", "r", "2", "d", "2", " ", "K", "u", "b", "e",
      "r", "n", "e", "t", "e", "s", " ", "t", "e", "r", "r", "a", "f", "o",
      "r", "m", "-", "c", "l", "o", "u", "d", " ", "A", "W", "S">>
JobDescriptionTexts == {<<>>, FivePosting, ThreePosting}

\* "Python and SQL", "KUBERNETES", "terraform", "Monitoring", "r2d2", "Go C#"
DraftLines ==
    {<<"P", "y", "t", "h", "o", "n", " ", "a", "n", "d", " ", "S", "Q", "L">>,
     <<"K", "U", "B", "E", "R", "N", "E", "T", "E", "S">>,
     <<"t", "e", "r", "r", "a", "f", "o", "r", "m">>,
     <<"M", "o", "n", "i", "t", "o", "r", "i", "n", "g">>,
     <<"r", "2", "d", "2">>,
     <<"G", "o", " ", "C", "#">>}

Engineer == <<"E", "n", "g", "i", "n", "e", "e", "r">>
SQL == <<"S", "Q", "L">>
Python == <<"P", "y", "t", "h", "o", "n">>
Acme == <<"A", "c", "m", "e", " ", "2", "0", "2", "0">>
BSc == <<"B", "S", "c">>
AWS == <<"A", "W", "S">>

\* Entries of the longest list of a section.
MaxEntries == 52

\* A list of MaxEntries skills: an empty one, then "sk01", "sk02", ...
ManySkills ==
    [i \in 1..MaxEntries |->
        IF i = 1 THEN <<>>
        ELSE <<"s", "k", ascii_digits[(((i - 1) \div 10) % 10) + 1],
                        ascii_digits[((i - 1) % 10) + 1]>>]

\* A draft with its five sections, the same with an empty Certifications, one
\* with no Certifications and an empty Skills list, one with the long Skills
\* list, and the draft of a final assembly that was not JSON.
FullSections ==
    <<<<"Summary", Str(Engineer)>>, <<"Skills", List(<<SQL, Python>>)>>,
      <<"Experience", List(<<Acme>>)>>, <<"Education", Str(BSc)>>,
      <<"Certifications", Str(AWS)>>>>
DraftSections ==
    {FullSections,
     [FullSections EXCEPT ![5] = <<"Certifications", Str(<<>>)>>],
     [SubSeq(FullSections, 1, 4) EXCEPT ![2] = <<"Skills", List(<<>>)>>],
     [FullSections EXCEPT ![2] = <<"Skills", List(ManySkills)>>],
     <<<<"Summary", Str(Engineer)>>>>}

\* The blocks of a parsed resume that has every entry above, in its own
\* letter case, and of one that has none.
SourceResumes ==
    {<<>>,
     <<[Text |-> lower(Engineer)], [Text |-> <<>>], [Text |-> lower(SQL)], [Text |-> Python],
       [Text |-> Acme], [Text |-> lower(BSc)], [Text |-> AWS]>>}

\* "\n".join(lines)
RECURSIVE join_lines(_)
join_lines(lines) ==
    IF lines = <<>> THEN <<>>
    ELSE IF Len(lines) = 1 THEN Head(lines)
    ELSE Head(lines) \o <<"\n">> \o join_lines(Tail(lines))

\* The event of the ValidateDraft state for the draft being followed.
ValidateEvent(v) ==
    [draft |-> [draftText |-> join_lines(v.lines), sections |-> v.sections],
     parsedResume |-> v.parsed_resume,
     jobDescription |-> v.job_description]

\* The handler runs on the event as it is.
Validate ==
    /\ val.pc \in {"ready", "validated"}
    /\ val' = [val EXCEPT !.pc = "validated", !.report = validate_handler(ValidateEvent(val))]

\* The draft gets one more line and is validated again.
AppendLine ==
    /\ val.pc = "validated"
    /\ Len(val.lines) < MaxLines
    /\ \E line \in DraftLines :
          LET longer == [val EXCEPT !.lines = Append(@, line)]
          IN val' = [longer EXCEPT !.report = validate_handler(ValidateEvent(longer))]

\* The draft loses its last line and is validated again.
RemoveLine ==
    /\ val.pc = "validated"
    /\ val.lines # <<>>
    /\ LET shorter == [val EXCEPT !.lines = SubSeq(@, 1, Len(@) - 1)]
       IN val' = [shorter EXCEPT !.report = validate_handler(ValidateEvent(shorter))]

ValInit ==
    /\ ledger = [j \in JobKeys |-> NoItem]
    /\ execs = EmptyBag
    /\ gen = Idle
    /\ api = Idle
    /\ tailor = Idle
    /\ val \in [pc : {"ready"}, job_description : JobDescriptionTexts, lines : {<<>>},
                sections : DraftSections, parsed_resume : SourceResumes, report : {NoReport}]

ValNext ==
    \/ Validate /\ UNCHANGED <<vars, gen, api, tailor>>
    \/ AppendLine /\ UNCHANGED <<vars, gen, api, tailor>>
    \/ RemoveLine /\ UNCHANGED <<vars, gen, api, tailor>>

ValSpec == ValInit /\ [][ValNext]_val

\* ---- the HTTP API: submission and status query --------------------------
\* The body of a POST: it is JSON or not, has tenantId and resumeKey or not,
\* has a jobDescription text or not, and names with jobDescriptionKey an object
\* that is missing, unreadable, empty or a text (Absent: no key given).
PostBodies ==
    [json : {TRUE}, tenantId : BOOLEAN, resumeKey : BOOLEAN,
     jobDescription : {Absent, "Data engineer"},
     jobDescriptionObject : {Absent, "NoSuchKey", "AccessDenied", "", "Data engineer wanted"}]
        \cup [json : {FALSE}, tenantId : {FALSE}, resumeKey : {FALSE},
              jobDescription : {Absent}, jobDescriptionObject : {Absent}]

\* Lines 40-62 of the submission handler: how the request fares.
request_kind(body) ==
    IF ~body.json \/ ~body.tenantId \/ ~body.resumeKey THEN "invalid_body"
    ELSE IF body.jobDescription \notin {Absent, ""} THEN "ok"
    ELSE IF body.jobDescriptionObject = "NoSuchKey" THEN "jd_no_such_key"
    ELSE IF body.jobDescriptionObject = "AccessDenied" THEN "jd_read_error"
    ELSE IF body.jobDescriptionObject \in {Absent, ""} THEN "jd_empty"
    ELSE "ok"

\* The status of the response the submission handler returns; 0 when it
\* returns none because start_execution raised.
status_code(kind, start) ==
    CASE kind = "invalid_body" -> 400
      [] kind = "jd_no_such_key" -> 404
      [] kind = "jd_read_error" -> 500
      [] kind = "jd_empty" -> 400
      [] kind = "ok" -> IF start = "started" THEN 202 ELSE 0

NoBody ==
    [json |-> FALSE, tenantId |-> FALSE, resumeKey |-> FALSE,
     jobDescription |-> Absent, jobDescriptionObject |-> Absent]
NoQuery == [tenantId |-> Absent, jobId |-> Absent]

\* What the API holds after the submission handler ran on a request.
Posted(j, body, start) ==
    [pc |-> "workflow_handler", job |-> j, body |-> body, query |-> NoQuery,
     statusCode |-> status_code(request_kind(body), start), item |-> NoItem]

\* POST /tailor: the submission handler on one request.  A rejected request
\* does not depend on the job id, the options or start_execution, and a failed
\* start does not depend on the options: one value stands for all of them.
Post ==
    \E body \in PostBodies :
        \/ /\ request_kind(body) # "ok"
           /\ handler("job1", Absent, request_kind(body), "raised")
           /\ api' = Posted(Absent, body, "raised")
        \/ /\ request_kind(body) = "ok"
           /\ \E j \in JobKeys :
                 \/ handler(j, Absent, "ok", "raised") /\ api' = Posted(j, body, "raised")
                 \/ \E opts \in RunComprehendValues :
                       handler(j, opts, "ok", "started") /\ api' = Posted(j, body, "started")

\* Tenants and job ids of the status queries; the two job keys are the job
\* "j" of tenant A and the job "j" of tenant B.
StatusQueries ==
    [tenantId : {Absent, "", "tenantA", "tenantB"}, jobId : {Absent, "", "j", "k"}]

\* Everything that finds an item under the job id, whatever the tenant.
KeyOfJob(tenant_id, job_id) == IF job_id = "j" THEN "job1" ELSE Absent

\* Key={"pk": f"TENANT#{tenant_id}", "sk": f"JOB#{job_id}"}
KeyOf(tenant_id, job_id) ==
    CASE tenant_id = "tenantA" /\ job_id = "j" -> "job1"
      [] tenant_id = "tenantB" /\ job_id = "j" -> "job2"
      [] OTHER -> Absent

\* table.get_item(Key=...).get("Item"): None is the item with no attribute.
get_item(table, key) == IF key \in DOMAIN table THEN table[key] ELSE NoItem

\* status_handler's handler: the status and, with 200, the attributes of the
\* item the body repeats.
status_handler(query, table) ==
    IF query.jobId \in {Absent, ""} \/ query.tenantId \in {Absent, ""}
    THEN [statusCode |-> 400, item |-> NoItem]
    ELSE LET item == get_item(table, KeyOf(query.tenantId, query.jobId))
         IN IF item = NoItem THEN [statusCode |-> 404, item |-> NoItem]
            ELSE [statusCode |-> 200, item |-> item]

\* GET /status/{jobId}?tenantId=...
StatusQuery ==
    /\ \E query \in StatusQueries :
          LET response == status_handler(query, ledger)
          IN api' = [pc |-> "status_handler", job |-> Absent, body |-> NoBody, query |-> query,
                     statusCode |-> response.statusCode, item |-> response.item]
    /\ UNCHANGED vars

\* An execution that failed in ParseResume: before and after MarkJobFailed.
CaughtAtParse(j) == Raise(NewExecution(j, "true"), "ParseResume", "Textract.Exception")
FailedAtParse(j) == Advance(CaughtAtParse(j), "MarkJobFailed")

\* Where a job can be when a request arrives: not submitted, submitted and
\* about to start, or failed.
Situations == {"none", "running", "failed"}

ApiInit ==
    /\ gen = Idle
    /\ val = Idle
    /\ tailor = Idle
    /\ api = [pc |-> "idle", job |-> Absent, body |-> NoBody, query |-> NoQuery,
              statusCode |-> 0, item |-> NoItem]
    /\ \E at \in [JobKeys -> Situations] :
          /\ ledger =
                [j \in JobKeys |->
                    CASE at[j] = "none" -> NoItem
                      [] at[j] = "running" -> job_item
                      [] at[j] = "failed" ->
                            UpdateItem([k \in {j} |-> job_item], j,
                                       FailureUpdate(CaughtAtParse(j)))[j]]
          /\ execs =
                SetToBag({NewExecution(j, "true") : j \in {k \in JobKeys : at[k] = "running"}}
                            \cup {FailedAtParse(j) : j \in {k \in JobKeys : at[k] = "failed"}})

ApiNext ==
    \/ Post /\ UNCHANGED <<gen, val, tailor>>
    \/ StatusQuery /\ UNCHANGED <<gen, val, tailor>>

ApiSpec == ApiInit /\ [][ApiNext]_<<vars, api>>

\* ---- the direct tailoring handler ----------------------------------------
\* The jobs table is keyed by jobId alone.  A row keeps its owner, its status,
\* its errorMessage, its share token and the actions of its events.
JobIds == {"j1", "j2"}
ShareTokens == {"t1", "t2"}
NoRow ==
    [userId |-> Absent, status |-> Absent, errorMessage |-> Absent, shareToken |-> Absent,
     events |-> <<>>]

\* A caller: the claims the Cognito authorizer passes on (sub, cognito:groups),
\* the x-user-id and x-user-role headers and the share parameter of the query
\* string.
Callers ==
    [sub : {Absent, "alice", "bob"}, groups : {{}, {"Manager"}, {"Admin"}},
     x_user_id : {Absent, "alice"}, x_user_role : {Absent, "Admin"}, share : {Absent, "t1"}]
NoCaller ==
    [sub |-> Absent, groups |-> {}, x_user_id |-> Absent, x_user_role |-> Absent,
     share |-> Absent]

\* Lines 321-324.
claim_user(caller) == caller.sub
claim_groups(caller) == caller.groups

\* str.lower() of a role name.
lower_role(text) ==
    CASE text = "Admin" -> "admin"
      [] text = "Manager" -> "manager"
      [] OTHER -> text

\* Line 368: the header wins over the groups.
role(caller) ==
    IF caller.x_user_role # Absent THEN lower_role(caller.x_user_role)
    ELSE IF "Admin" \in claim_groups(caller) THEN "admin"
    ELSE IF "Manager" \in claim_groups(caller) THEN "manager"
    ELSE "user"

\* Line 369: the header wins over the token's subject.
user_id_h(caller) ==
    IF caller.x_user_id # Absent THEN caller.x_user_id
    ELSE IF claim_user(caller) # Absent THEN claim_user(caller)
    ELSE "anonymous"

\* Lines 357-372: GET /jobs/{jobId}.
get_job(caller, j, table) ==
    LET item == table[j]
    IN IF caller.share # Absent /\ item # NoRow /\ item.shareToken = caller.share
       THEN [statusCode |-> 200, job |-> item]
       ELSE IF item # NoRow /\ (role(caller) \in {"manager", "admin"}
                                  \/ item.userId = user_id_h(caller))
       THEN [statusCode |-> 200, job |-> item]
       ELSE [statusCode |-> 403, job |-> NoRow]

\* The calls of one POST /tailor that raise: none, one of them, or the worker
\* invocation and the update that follows it.
NoFault == [put_item |-> FALSE, append_event |-> FALSE, invoke |-> FALSE, update_item |-> FALSE]
Faults ==
    {NoFault, [NoFault EXCEPT !.put_item = TRUE], [NoFault EXCEPT !.append_event = TRUE],
     [NoFault EXCEPT !.invoke = TRUE], [NoFault EXCEPT !.update_item = TRUE],
     [NoFault EXCEPT !.invoke = TRUE, !.update_item = TRUE]}

\* The bodies posted: jobId j1, with and without a resume text.
TailorBodies == [jobId : {"j1"}, resumeText : {"", "Engineer"}]

\* Lines 405-540: POST /tailor with a job description.  The table after the
\* handler, its status code and whether it wrote the row.
post_tailor(caller, body, token, fails, worker_fn, table) ==
    LET j == body.jobId
        user_id == IF claim_user(caller) = Absent THEN "anonymous" ELSE claim_user(caller)
        item == [userId |-> user_id, status |-> "processing", errorMessage |-> Absent,
                 shareToken |-> token, events |-> <<>>]
        put == [table EXCEPT ![j] = item]
        queued == [put EXCEPT ![j].events = Append(@, "queued")]
        failed(message) == [queued EXCEPT ![j].status = "failed", ![j].errorMessage = message]
    IN IF body.resumeText = "" THEN [statusCode |-> 400, table |-> table, wrote |-> FALSE]
       ELSE IF fails.put_item THEN [statusCode |-> 400, table |-> table, wrote |-> FALSE]
       ELSE IF fails.append_event THEN [statusCode |-> 400, table |-> put, wrote |-> TRUE]
       ELSE IF worker_fn = ""
       THEN IF fails.update_item THEN [statusCode |-> 400, table |-> queued, wrote |-> TRUE]
            ELSE [statusCode |-> 500, table |-> failed("worker function not configured"),
                  wrote |-> TRUE]
       ELSE IF fails.invoke
       THEN IF fails.update_item THEN [statusCode |-> 400, table |-> queued, wrote |-> TRUE]
            ELSE [statusCode |-> 500, table |-> failed("ServiceException"), wrote |-> TRUE]
       ELSE [statusCode |-> 202, table |-> queued, wrote |-> TRUE]

\* POST /tailor by an anonymous caller or by alice.
PostTailor ==
    \E caller \in {NoCaller, [NoCaller EXCEPT !.sub = "alice"]}, body \in TailorBodies,
       token \in ShareTokens, fails \in Faults :
        LET done == post_tailor(caller, body, token, fails, tailor.worker_fn, tailor.table)
        IN tailor' = [tailor EXCEPT !.pc = "posted", !.table = done.table, !.caller = caller,
                                    !.jobId = body.jobId, !.wrote = done.wrote,
                                    !.statusCode = done.statusCode, !.job = NoRow]

\* GET /jobs/{jobId}.
GetJob ==
    \E caller \in Callers, j \in JobIds :
        LET got == get_job(caller, j, tailor.table)
        IN tailor' = [tailor EXCEPT !.pc = "got", !.caller = caller, !.jobId = j,
                                    !.wrote = FALSE, !.statusCode = got.statusCode,
                                    !.job = got.job]

TailorInit ==
    /\ ledger = [j \in JobKeys |-> NoItem]
    /\ execs = EmptyBag
    /\ gen = Idle
    /\ val = Idle
    /\ api = Idle
    /\ tailor \in [pc : {"ready"}, worker_fn : {"", "tailor-worker"},
                   table : {[j \in JobIds |-> NoRow]}, caller : {NoCaller}, jobId : {"j1"},
                   wrote : {FALSE}, statusCode : {0}, job : {NoRow}]

TailorNext ==
    \/ PostTailor /\ UNCHANGED <<vars, gen, val, api>>
    \/ GetJob /\ UNCHANGED <<vars, gen, val, api>>

TailorSpec == TailorInit /\ [][TailorNext]_tailor

\* ---- notions the properties share --------------------------------------
Terminal == {"COMPLETED", "FAILED"}
ResultFields == {"docxKey", "pdfKey", "validationReport"}

\* Executions started for job j, copies counted.
ExecutionsOf(j) ==
    BagCardinality([x \in {y \in Running : y.job = j} |-> CopiesIn(x, execs)])

Steps(x) == {x.trace[i] : i \in 1..Len(x.trace)}
Invoked(x, state) == \E r \in Steps(x) : r[1] = state /\ r[2] # "States.Runtime"
Raised(x, state) == \E r \in Steps(x) : r[1] = state /\ r[2] \in ErrorsOf(state)
Ended(x) == x.pc \in EndStates

StatusRank(st) ==
    CASE st = Absent -> 0
      [] st = "RUNNING" -> 1
      [] st \in Terminal -> 2

\* C2: the status of a ledger row only moves forward: no write takes a row
\* from COMPLETED or FAILED to RUNNING or to the other terminal value, and no
\* row goes from a later status to an earlier one.
C2_StatusForward ==
    [][\A j \in JobKeys :
          /\ StatusRank(ledger[j].status) <= StatusRank(ledger'[j].status)
          /\ ledger[j].status \in Terminal => ledger'[j].status = ledger[j].status]_vars

\* ---- C3 ----------------------------------------------------------------
PipelineStates ==
    {"ParseResume", "DetectPII", "GenerateDraft", "ValidateDraft",
     "RenderArtifacts", "PersistJobMetadata"}

\* The trace holds at most one entry that is not a success, and it is the
\* last entry of a pipeline state.
NothingAfterFailure(x) ==
    \A i \in 1..Len(x.trace) :
        (x.trace[i][1] \in PipelineStates /\ x.trace[i][2] # "ok") =>
            \A k \in (i + 1)..Len(x.trace) : x.trace[k][1] \notin PipelineStates

\* C3: for each of ParseResume, DetectPII, GenerateDraft, ValidateDraft,
\* RenderArtifacts and PersistJobMetadata, when the step raises an error no
\* later pipeline step is invoked in that execution and, when the execution
\* ends, the job's ledger row has status FAILED.
C3_FailureRoutesToLedger ==
    [][\A y \in Running' :
          (\E st \in PipelineStates : Raised(y, st)) =>
              /\ NothingAfterFailure(y)
              /\ (Ended(y) /\ y \notin Running) => ledger'[y.job].status = "FAILED"]_vars

\* ---- C4 ----------------------------------------------------------------
\* C4: every job accepted by the submission handler (row written with status
\* RUNNING) eventually has status COMPLETED or FAILED, whichever step fails.
C4_EventuallyTerminal ==
    \A j \in JobKeys :
        (ledger[j].status = "RUNNING") ~> (ledger[j].status \in Terminal)

\* ---- C5 ----------------------------------------------------------------
\* C5: with options.runComprehend = true DetectPII runs before GenerateDraft,
\* and a DetectPII failure does not fail the job: the execution goes on to
\* GenerateDraft.
C5_ScreenerBestEffort ==
    \A x \in Running :
        /\ (x.options = "true" /\ Invoked(x, "GenerateDraft")) => Invoked(x, "DetectPII")
        /\ Raised(x, "DetectPII") =>
              /\ x.pc # "Aborted"
              /\ x.pc = "GenerateDraft" \/ Invoked(x, "GenerateDraft")

\* ---- C6 ----------------------------------------------------------------
\* C6: with options.runComprehend = false DetectPII is never invoked, the
\* state after a successful ParseResume and the choice is GenerateDraft, and
\* GenerateDraft gets the input it needs (it is invoked, not stopped by a
\* missing piiAnalysis).
C6_SkipScreener ==
    \A x \in Running :
        x.options = "false" =>
            /\ ~Invoked(x, "DetectPII")
            /\ x.pc # "DetectPII"
            /\ <<"GenerateDraft", "States.Runtime">> \notin Steps(x)

\* ---- C7 ----------------------------------------------------------------
\* The last pipeline stage the execution has completed.
LastCompleted(x) ==
    LET done == {i \in 1..Len(x.trace) :
                    x.trace[i][1] \in PipelineStates /\ x.trace[i][2] = "ok"}
    IN IF done = {} THEN "none"
       ELSE x.trace[CHOOSE i \in done : \A k \in done : k <= i][1]

InPipeline(x) == x.pc \in (PipelineStates \cup {"RunComprehend"})

PipelineOrder(opts) ==
    IF opts = "true"
    THEN <<"ParseResume", "DetectPII", "GenerateDraft", "ValidateDraft",
           "RenderArtifacts", "PersistJobMetadata">>
    ELSE <<"ParseResume", "GenerateDraft", "ValidateDraft", "RenderArtifacts",
           "PersistJobMetadata">>

\* The entries of the trace that belong to pipeline steps.
IsPipelineEntry(r) == r[1] \in PipelineStates

PipelineTrace(x) == SelectSeq(x.trace, IsPipelineEntry)

InOrder(x) ==
    LET t == PipelineTrace(x)
        order == PipelineOrder(x.options)
    IN /\ Len(t) <= Len(order)
       /\ \A i \in 1..Len(t) : t[i][1] = order[i]
       /\ \A i \in 1..(Len(t) - 1) : t[i][2] = "ok"

RanToCompletion(x) ==
    /\ Len(PipelineTrace(x)) = Len(PipelineOrder(x.options))
    /\ \A i \in 1..Len(x.trace) : x.trace[i][2] = "ok"

\* C8: in every execution the steps run in the order ParseResume, DetectPII
\* (when runComprehend is true), GenerateDraft, ValidateDraft,
\* RenderArtifacts, PersistJobMetadata, each one only after its predecessor
\* succeeded; and a row is COMPLETED only if an execution of that job ran all
\* of them successfully.
C8_PipelineOrder ==
    /\ \A x \in Running : InOrder(x)
    /\ \A x \in Running :
          x.pc \in {"PersistJobMetadata", "Succeeded"} =>
              \A st \in {"ParseResume", "GenerateDraft", "ValidateDraft", "RenderArtifacts"} :
                  <<st, "ok">> \in Steps(x)
    /\ \A j \in JobKeys :
          ledger[j].status = "COMPLETED" =>
              \E x \in Running : x.job = j /\ RanToCompletion(x)

\* An execution that went through all five steps and reached
\* PersistJobMetadata, the step that writes COMPLETED.
C8_Witness ==
    \E x \in Running :
        /\ x.options = "true"
        /\ Len(x.trace) = 6
        /\ x.trace[6][1] = "PersistJobMetadata"
        /\ \A i \in 1..5 : x.trace[i][2] = "ok"

\* ---- C9 ----------------------------------------------------------------
Count(x, state) == Cardinality({i \in 1..Len(x.trace) : x.trace[i][1] = state})

NoLaterStage(x) ==
    \A st \in {"ValidateDraft", "RenderArtifacts", "PersistJobMetadata"} :
        Count(x, st) = 0

RenderFailed(x) ==
    /\ <<"RenderArtifacts", "ok">> \in Steps(x)
    /\ Get(x.artifacts, "statusCode") # "200"

\* C10: a failure inside the render stage makes the job FAILED: once the
\* execution has ended the row is FAILED, neither COMPLETED nor RUNNING.
C10_RenderFailureFailsJob ==
    \A x \in Running :
        (RenderFailed(x) /\ Ended(x) /\ ExecutionsOf(x.job) = 1) =>
            ledger[x.job].status = "FAILED"

\* ---- C11 ---------------------------------------------------------------
AllResultFields == ResultFields \cup {"completedAt"}

\* C11: PersistJobMetadata writes docxKey, pdfKey, validationReport, status
\* COMPLETED and completedAt in one update, so no COMPLETED row lacks one of
\* them; and running it for an execution whose stages all succeeded raises no
\* error, a second run with the same result leaving the row as the first did.
C11_PersistAtomicIdempotent ==
    /\ \A j \in JobKeys :
          ledger[j].status = "COMPLETED" =>
              \A f \in AllResultFields : ledger[j][f] # Absent
    /\ \A x \in Running :
          /\ <<"PersistJobMetadata", "States.Runtime">> \notin Steps(x)
          /\ (x.pc = "PersistJobMetadata" /\ PathsResolve(x, "PersistJobMetadata")) =>
                LET once == UpdateItem(ledger, x.job, StoreUpdate(x))
                IN UpdateItem(once, x.job, StoreUpdate(x)) = once

\* ---- C12 ---------------------------------------------------------------
\* C12: once a row is COMPLETED or FAILED no later operation changes any of
\* its fields.
C12_TerminalRowFrozen ==
    [][\A j \in JobKeys :
          ledger[j].status \in Terminal => ledger'[j] = ledger[j]]_vars

\* ---- C13 ---------------------------------------------------------------
\* C13: a submission for a (tenantId, jobId) that already has a row does not
\* replace that row.
C13_NoOverwriteOnCreate ==
    [][Submit => \A j \in JobKeys :
                    ledger[j].status # Absent => ledger'[j] = ledger[j]]_vars

\* ---- C14 ---------------------------------------------------------------
WroteTerminal(x) == x.pc \in {"Succeeded", "WorkflowFailed"}

\* C14: the terminal writes are compare-and-set on status: an execution
\* writes COMPLETED or FAILED only to a row that is not terminal yet, so of
\* two executions of one job at most one writes a terminal state.
C14_CompareAndSet ==
    [][\A y \in Running' :
          (WroteTerminal(y) /\ CopiesIn(y, execs') > CopiesIn(y, execs)) =>
              ledger[y.job].status \notin Terminal]_vars

\* ---- C15 ---------------------------------------------------------------
\* The row a job has when its one execution has ended and nothing else ran:
\* the submitted item, with status and error set when MarkJobFailed wrote.
RowAlone(x) ==
    CASE x.pc = "WorkflowFailed" ->
            [job_item EXCEPT !.status = "FAILED", !.error = JsonToString(x.error)]
      [] x.pc = "Succeeded" ->
            [job_item EXCEPT !.status = "COMPLETED",
                             !.docxKey = Get(x.artifacts, "docxKey"),
                             !.pdfKey = Get(x.artifacts, "pdfKey"),
                             !.completedAt = Get(x.artifacts, "completedAt"),
                             !.validationReport = JsonToString(x.validation)]
      [] OTHER -> job_item

\* The rows a step changes.
RowsWritten == {j \in JobKeys : ledger'[j] # ledger[j]}

\* C15: executions of different jobs share no mutable state.  Every step
\* writes at most one ledger row, and the row written is that of the job whose
\* execution took the step (or of the job being submitted); and whatever the
\* other job's executions did in between, the row of a job whose single
\* execution has ended is the row that execution produces on its own (or the
\* submitted item, when the job's own submission was repeated).
C15_JobsIndependent ==
    [][/\ Cardinality(RowsWritten) <= 1
       /\ \A j \in RowsWritten :
             \/ \E y \in Running' :
                   y.job = j /\ CopiesIn(y, execs') > CopiesIn(y, execs)
             \/ execs' = execs /\ ledger'[j] = job_item
       /\ \A y \in Running' :
             (Ended(y) /\ ExecutionsOf(y.job)' = 1) =>
                 ledger'[y.job] \in {RowAlone(y), job_item}]_vars

\* Two jobs whose executions both ended in MarkJobFailed with different
\* errors, each row holding its own execution's error.
C15_Witness ==
    \E x, y \in Running :
        /\ x.job # y.job
        /\ x.pc = "WorkflowFailed" /\ y.pc = "WorkflowFailed"
        /\ x.error # y.error
        /\ ledger[x.job] = RowAlone(x)
        /\ ledger[y.job] = RowAlone(y)

\* ---- C16 ---------------------------------------------------------------
\* C16: a validation result of REVIEW does not block the pipeline.  Whatever
\* status ValidateDraft returned, an execution that has ended without
\* RenderArtifacts or PersistJobMetadata raising has run both of them, and
\* the report with its status is stored in the job's completed row.
C16_ReviewDoesNotBlock ==
    \A x \in Running :
        (/\ Ended(x)
         /\ x.validation \in ValidationStatuses
         /\ ~Raised(x, "RenderArtifacts")
         /\ ~Raised(x, "PersistJobMetadata")
         /\ ExecutionsOf(x.job) = 1) =>
            /\ <<"RenderArtifacts", "ok">> \in Steps(x)
            /\ <<"PersistJobMetadata", "ok">> \in Steps(x)
            /\ ledger[x.job].status = "COMPLETED"
            /\ ledger[x.job].validationReport = JsonToString(x.validation)

\* ---- C17 ---------------------------------------------------------------
\* C17: the generate handler never fails because of a malformed model
\* answer.  Once the model has been invoked, the handler raises only when the
\* gateway itself raised; whatever text or empty content the gateway returned,
\* the handler returns a draft whose sections are an object.
C17_MalformedOutputDegrades ==
    /\ (gen.pc = "raised" /\ gen.calls # <<>>) => gen.error = "ClientError"
    /\ gen.pc = "returned" => gen.result.sections.type = "object"

\* ---- C18 ---------------------------------------------------------------
Validated == val.pc = "validated"
AllPopulated(sections) ==
    \A section \in Range(required_sections) :
        \E i \in 1..Len(sections) :
            sections[i][1] = section /\ Populated(sections[i][2])

\* C18: the report's status is REVIEW exactly when the coverage score is
\* below 0.6 or a section is missing or an entity was introduced, and PASS
\* otherwise; a draft with its five sections populated, score 0.8 and no
\* introduced entity gets PASS.
C18_StatusPolicy ==
    Validated =>
        LET report == val.report
        IN /\ report.status \in {"PASS", "REVIEW"}
           /\ report.status = "REVIEW" <=>
                 \/ report.keywordCoverage.score < 60
                 \/ report.missingSections # <<>>
                 \/ report.introducedEntities # <<>>
           /\ (/\ AllPopulated(val.sections)
               /\ report.keywordCoverage.score = 80
               /\ report.introducedEntities = <<>>) => report.status = "PASS"

\* The scenario: five sections, score 0.8, nothing introduced, PASS.
C18_Witness ==
    /\ Validated
    /\ AllPopulated(val.sections)
    /\ val.report.keywordCoverage.score = 80
    /\ val.report.introducedEntities = <<>>
    /\ val.report.status = "PASS"

\* ---- C19 ---------------------------------------------------------------
Abs(n) == IF n < 0 THEN -n ELSE n
Lowered == {ascii_lowercase[i] : i \in 1..26} \cup {ascii_digits[i] : i \in 1..10}

\* The job description's tokens that occur twice or have more than six
\* characters.
RequiredTokens(job_description) ==
    LET jd_tokens == normalize_tokens(job_description)
    IN {token \in Range(jd_tokens) : Counted(jd_tokens, token) >= 2 \/ Len(token) > 6}

DraftTokens(v) == Range(normalize_tokens(join_lines(v.lines)))

\* C19: the tokens are lower-cased alphanumeric runs longer than 2; covered
\* and missing are disjoint, their union is the set of job-description tokens
\* occurring at least twice or longer than 6, covered being those the draft
\* has; the score is |covered| / max(|required|, 1) to the nearest hundredth,
\* lies between 0 and 1 and is 0 when nothing is required.
C19_KeywordCoverage ==
    Validated =>
        LET coverage == val.report.keywordCoverage
            required == RequiredTokens(val.job_description)
            covered == Range(coverage.covered)
            missing == Range(coverage.missing)
            den == Max(Cardinality(required), 1)
        IN /\ \A token \in Range(normalize_tokens(val.job_description)) :
                 Len(token) > 2 /\ Range(token) \subseteq Lowered
           /\ covered \cap missing = {}
           /\ covered \cup missing = required
           /\ covered = required \cap DraftTokens(val)
           /\ Len(coverage.covered) = Cardinality(covered)
           /\ 2 * Abs(100 * Cardinality(covered) - coverage.score * den) <= den
           /\ coverage.score >= 0 /\ coverage.score <= 100
           /\ required = {} => coverage.score = 0

\* Two of three required tokens covered (score 0.67), one of the required
\* tokens short and repeated, another long.
C19_Witness ==
    /\ Validated
    /\ val.report.keywordCoverage.score = 67
    /\ Len(val.report.keywordCoverage.covered) = 2
    /\ \E token \in RequiredTokens(val.job_description) : Len(token) <= 6
    /\ \E token \in RequiredTokens(val.job_description) : Len(token) > 6

\* ---- C20 ---------------------------------------------------------------
\* C20: for a fixed job description, when every token of the draft validated
\* before is a token of the draft validated now, the score now is at least
\* the score before; and validating an unchanged draft again gives the same
\* score.
C20_ScoreMonotonic ==
    [][(/\ Validated /\ Validated'
        /\ val'.job_description = val.job_description) =>
            /\ DraftTokens(val) \subseteq DraftTokens(val') =>
                  val'.report.keywordCoverage.score >= val.report.keywordCoverage.score
            /\ val'.lines = val.lines =>
                  val'.report.keywordCoverage.score = val.report.keywordCoverage.score]_val

\* A draft whose last line brought a required token: its score is above the
\* score of the draft without that line.
C20_Witness ==
    /\ Validated
    /\ Len(val.lines) >= 2
    /\ LET front == SubSeq(val.lines, 1, Len(val.lines) - 1)
       IN /\ Range(normalize_tokens(join_lines(front))) \subseteq DraftTokens(val)
          /\ RequiredTokens(val.job_description) \cap DraftTokens(val)
                # RequiredTokens(val.job_description)
                      \cap Range(normalize_tokens(join_lines(front)))
          /\ val.report.keywordCoverage.score > 0

\* ---- C21 ---------------------------------------------------------------
\* A section the draft does not have, or has with an empty value.
AbsentOrEmpty(sections, section) ==
    \A i \in 1..Len(sections) :
        sections[i][1] = section =>
            IF sections[i][2].list THEN sections[i][2].items = <<>>
            ELSE sections[i][2].items[1] = <<>>

\* The five section names, spelled.
Spelled(section) ==
    CASE section = "Summary" -> <<"S", "u", "m", "m", "a", "r", "y">>
      [] section = "Skills" -> <<"S", "k", "i", "l", "l", "s">>
      [] section = "Experience" -> <<"E", "x", "p", "e", "r", "i", "e", "n", "c", "e">>
      [] section = "Education" -> <<"E", "d", "u", "c", "a", "t", "i", "o", "n">>
      [] section = "Certifications" ->
            <<"C", "e", "r", "t", "i", "f", "i", "c", "a", "t", "i", "o", "n", "s">>

\* C21: missingSections holds exactly the sections among Summary, Skills,
\* Experience, Education and Certifications that the draft lacks or has with
\* an empty value, each once, in sorted order; a draft missing only
\* Certifications gives missingSections = ["Certifications"] and REVIEW.
C21_MissingSections ==
    Validated =>
        LET missing == val.report.missingSections
            lacking == {section \in {"Summary", "Skills", "Experience", "Education",
                                     "Certifications"} :
                            AbsentOrEmpty(val.sections, section)}
        IN /\ Range(missing) = lacking
           /\ \A i, k \in 1..Len(missing) :
                 i < k => Before(Spelled(missing[i]), Spelled(missing[k]))
           /\ lacking = {"Certifications"} =>
                 missing = <<"Certifications">> /\ val.report.status = "REVIEW"

\* A draft missing only Certifications, with enough coverage and nothing
\* introduced: REVIEW because of the missing section alone.
C21_Witness ==
    /\ Validated
    /\ val.report.missingSections = <<"Certifications">>
    /\ val.report.keywordCoverage.score >= 60
    /\ val.report.introducedEntities = <<>>
    /\ val.report.status = "REVIEW"

\* ---- C22 ---------------------------------------------------------------
\* The places <<section index, entry index>> of the draft's entries that are
\* not empty and whose lower-cased text no block of the parsed resume has.
SourceTexts(parsed_resume) ==
    {lower(parsed_resume[i].Text) : i \in 1..Len(parsed_resume)} \ {<<>>}
Qualifying(sections, parsed_resume) ==
    {p \in UNION {{<<i, k>> : k \in 1..Len(sections[i][2].items)} : i \in 1..Len(sections)} :
        /\ sections[p[1]][2].items[p[2]] # <<>>
        /\ lower(sections[p[1]][2].items[p[2]]) \notin SourceTexts(parsed_resume)}

\* Section order, then entry order.
Earlier(p, q) == p[1] < q[1] \/ (p[1] = q[1] /\ p[2] < q[2])

\* C22: introducedEntities lists, in section order then entry order, every
\* non-empty entry of the draft's sections whose lower-cased text is not a
\* text of the parsed resume, and has at most 50 entries: when more qualify,
\* exactly the first 50 are kept.
C22_IntroducedEntities ==
    Validated =>
        LET introduced == val.report.introducedEntities
            places == Qualifying(val.sections, val.parsed_resume)
        IN /\ Len(introduced) <= 50
           /\ Len(introduced) = Min(50, Cardinality(places))
           /\ \A p \in places :
                 LET n == Cardinality({q \in places : Earlier(q, p)}) + 1
                 IN n <= 50 =>
                       introduced[n] = <<val.sections[p[1]][1], val.sections[p[1]][2].items[p[2]]>>

\* More than 50 entries qualify and 50 are listed.
C22_Witness ==
    /\ Validated
    /\ Cardinality(Qualifying(val.sections, val.parsed_resume)) > 50
    /\ Len(val.report.introducedEntities) = 50

\* ---- C23 ---------------------------------------------------------------
\* A body that is not JSON, lacks tenantId or resumeKey, or gives no job
\* description text, neither in the body nor in a readable non-empty object.
Malformed(body) ==
    \/ ~body.json \/ ~body.tenantId \/ ~body.resumeKey
    \/ /\ body.jobDescription \in {Absent, ""}
       /\ body.jobDescriptionObject \in {Absent, "NoSuchKey", "AccessDenied", ""}

\* C23: a malformed submission creates no job.  The handler answers a
\* malformed request with 400, 404 or 500, and whenever it answers with one
\* of these no ledger row has been written and no execution started.
C23_MalformedCreatesNoJob ==
    [][api'.pc = "workflow_handler" =>
          /\ Malformed(api'.body) <=> api'.statusCode \in {400, 404, 500}
          /\ api'.statusCode \in {400, 404, 500} =>
                ledger' = ledger /\ execs' = execs]_<<vars, api>>

\* A request whose job description object does not exist was answered with
\* 404, and the ledger has no row.
C23_Witness ==
    /\ api.pc = "workflow_handler"
    /\ api.statusCode = 404
    /\ \A j \in JobKeys : ledger[j] = NoItem
    /\ execs = EmptyBag

\* ---- C24 ---------------------------------------------------------------
\* The row the ledger holds for a tenant and a job id, NoItem when none.
RowOf(tenant_id, job_id) ==
    IF tenant_id = "tenantA" /\ job_id = "j" THEN ledger["job1"]
    ELSE IF tenant_id = "tenantB" /\ job_id = "j" THEN ledger["job2"]
    ELSE NoItem

\* C24: the status query answers 400 when the tenant or the job id is
\* missing; otherwise 200 with the row stored for exactly that tenant and job
\* id when there is one, and 404 when there is none, so that the row of
\* tenant A is not returned to a query of tenant B; it never writes the ledger.
C24_StatusByCompositeKey ==
    [][api'.pc = "status_handler" =>
          LET query == api'.query
              incomplete == query.tenantId \in {Absent, ""} \/ query.jobId \in {Absent, ""}
              row == RowOf(query.tenantId, query.jobId)
          IN /\ ledger' = ledger /\ execs' = execs
             /\ api'.statusCode \in {200, 400, 404}
             /\ api'.statusCode = 400 <=> incomplete
             /\ api'.statusCode = 200 <=> ~incomplete /\ row # NoItem
             /\ api'.item = IF api'.statusCode = 200 THEN row ELSE NoItem]_<<vars, api>>

\* Tenant B asked for job "j", which tenant A has and tenant B has not, and
\* got 404.
C24_Witness ==
    /\ api.pc = "status_handler"
    /\ api.query = [tenantId |-> "tenantB", jobId |-> "j"]
    /\ ledger["job1"] # NoItem
    /\ ledger["job2"] = NoItem
    /\ api.statusCode = 404

\* ---- C25 ---------------------------------------------------------------
InvocationOrder ==
    <<"extract_competencies", "align_experience", "rewrite_bullets", "harmonize_skills",
      "consistency_pass", "final_assembly">>

\* C25: the six model invocations are issued one at a time in the order
\* competency extraction, experience alignment, bullet rewriting, skill
\* harmonization, consistency pass, final assembly; once an invocation has
\* raised nothing more is invoked and the handler has raised without a draft;
\* a draft is returned only after all six.
C25_SequentialInvocations ==
    [][/\ gen.error = Absent
       /\ Len(gen'.calls) \in {Len(gen.calls), Len(gen.calls) + 1}
       /\ Len(gen'.calls) <= Len(InvocationOrder)
       /\ gen'.calls = SubSeq(InvocationOrder, 1, Len(gen'.calls))
       /\ gen'.error # Absent => gen'.pc = "raised" /\ gen'.result = NoDraft
       /\ gen'.pc = "returned" => gen'.calls = InvocationOrder]_gen

\* The third invocation raised: three invocations were issued, no draft.
C25_Witness ==
    /\ gen.pc = "raised"
    /\ gen.calls = SubSeq(InvocationOrder, 1, 3)
    /\ gen.error = "ClientError"
    /\ gen.result = NoDraft

\* ---- C27 ---------------------------------------------------------------
RECURSIVE LinesText(_)
LinesText(lines) ==
    IF lines = <<>> THEN ""
    ELSE IF Len(lines) = 1 THEN lines[1]
    ELSE LinesText(SubSeq(lines, 1, Len(lines) - 1)) \o "\n" \o lines[Len(lines)]

IsLineOrWord(block) == block.BlockType \in {"LINE", "WORD"} /\ block.Text # ""
BlockText(event) == LinesText([i \in 1..Len(SelectSeq(event.parsedResume, IsLineOrWord)) |->
                                  SelectSeq(event.parsedResume, IsLineOrWord)[i].Text])
NoResumeText(event) == BlockText(event) = "" /\ event.resumeBlob \in {"", "NoSuchKey"}
NoJobDescription(event) ==
    /\ event.jobDescription \in {Absent, ""}
    /\ event.jobDescriptionBlob \in {Absent, ""}

\* C27: a model invocation has been issued only when the handler holds a
\* non-empty resume text, which is the text of the LINE and WORD blocks or,
\* when that is empty, the object at resumeKey, and a non-empty job
\* description from the event or from jobDescriptionKey; with no resume text
\* or no job description the handler raises before its first invocation.
C27_InputsBeforeInvocation ==
    /\ gen.calls # <<>> =>
          /\ gen.resume_text # ""
          /\ gen.resume_text = IF BlockText(gen.event) # "" THEN BlockText(gen.event)
                               ELSE gen.event.resumeBlob
          /\ ~NoResumeText(gen.event)
          /\ gen.job_description \notin {Absent, ""}
          /\ gen.job_description = IF gen.event.jobDescription \notin {Absent, ""}
                                   THEN gen.event.jobDescription
                                   ELSE gen.event.jobDescriptionBlob
    /\ (NoResumeText(gen.event) \/ NoJobDescription(gen.event)) /\ gen.pc # "start" =>
          /\ gen.pc = "raised"
          /\ gen.calls = <<>>
          /\ gen.result = NoDraft

\* No block text and an empty object at resumeKey: raised, nothing invoked.
C27_Witness ==
    /\ gen.pc = "raised"
    /\ gen.error = "ValueError"
    /\ BlockText(gen.event) = ""
    /\ gen.event.resumeBlob = ""
    /\ gen.event.jobDescription = "Data engineer"
    /\ gen.calls = <<>>

\* ---- C28 ---------------------------------------------------------------
\* The sections of a final assembly that was not JSON: the raw text under
\* Summary and nothing else.
Degraded(sections) ==
    /\ Len(sections) = 1
    /\ sections[1][1] = "Summary"
    /\ ~sections[1][2].list

\* C28: for the draft of a final assembly that was not JSON, whatever the job
\* description, the draft text and the parsed resume, missingSections holds
\* Skills, Experience, Education and Certifications and the status is REVIEW.
C28_DegradedAlwaysFlagged ==
    Validated /\ Degraded(val.sections) =>
        /\ {"Skills", "Experience", "Education", "Certifications"}
              \subseteq Range(val.report.missingSections)
        /\ val.report.status = "REVIEW"
        /\ "sections_missing" \in Range(val.report.changeLog)

\* A degraded draft whose text covers the posting and whose Summary the
\* resume has: REVIEW for the missing sections alone.
C28_Witness ==
    /\ Validated
    /\ Degraded(val.sections)
    /\ val.report.keywordCoverage.score >= 60
    /\ val.report.introducedEntities = <<>>
    /\ val.report.missingSections = <<"Certifications", "Education", "Experience", "Skills">>
    /\ val.report.status = "REVIEW"

\* ---- C26 ---------------------------------------------------------------
\* C26: for every draft the generate handler returns, structured or
\* degraded, with every job description, draft text and parsed resume, the
\* validate handler returns a report whose status is PASS or REVIEW; it
\* raises nothing, so ValidateDraft does not send the execution to FAILED.
C26_ValidateNeverFails ==
    Validated =>
        /\ val.report.status \in {"PASS", "REVIEW"}
        /\ val.report.keywordCoverage.score \in 0..100
        /\ Range(val.report.missingSections)
              \subseteq {"Summary", "Skills", "Experience", "Education", "Certifications"}
        /\ Head(val.report.changeLog) = "keyword_coverage"

\* The degraded draft with no text, an empty job description and a parsed
\* resume with no blocks: a report all the same.
C26_Witness ==
    /\ Validated
    /\ Degraded(val.sections)
    /\ val.lines = <<>>
    /\ val.job_description = <<>>
    /\ val.parsed_resume = <<>>
    /\ val.report.status = "REVIEW"
    /\ val.report.keywordCoverage.score = 0

\* ---- C29 ---------------------------------------------------------------
\* C29: after a POST /tailor that wrote the job row, the row is "processing"
\* only if the handler returned 202; with any other response the row is
\* "failed" and carries an errorMessage.
C29_FailedUnless202 ==
    tailor.pc = "posted" /\ tailor.wrote =>
        LET row == tailor.table[tailor.jobId]
        IN IF tailor.statusCode = 202 THEN row.status = "processing"
           ELSE row.status = "failed" /\ row.errorMessage # Absent

\* ---- C30 ---------------------------------------------------------------
\* C30: GET /jobs/{jobId} answers 200 with the row only when the caller gave
\* the row's share token, or the token's subject is the row's userId (a
\* caller without a token counting as "anonymous", the owner of the rows
\* posted without a token), or the token's groups hold Manager or Admin;
\* otherwise, and when there is no row, it answers 403 without job data,
\* whatever the headers are.
C30_RowOnlyToEntitled ==
    tailor.pc = "got" =>
        LET row == tailor.table[tailor.jobId]
            caller == tailor.caller
            entitled ==
                /\ row # NoRow
                /\ \/ caller.share # Absent /\ caller.share = row.shareToken
                   \/ (IF caller.sub = Absent THEN "anonymous" ELSE caller.sub) = row.userId
                   \/ caller.groups \cap {"Manager", "Admin"} # {}
        IN ~entitled => tailor.statusCode = 403 /\ tailor.job = NoRow

====
